---- MODULE Spec2Model ----
(***************************************************************************)
(* Model of the quota-status plugin: the HTTP client with timeout, retry   *)
(* and validation (lib/http.ts, request()), fetchWithTimeout and the       *)
(* string helpers of lib/utils.ts, the provider adapters that sit on top   *)
(* of them (lib/provider-factory.ts and the per-provider modules), and the *)
(* mystatus tool that queries the adapters concurrently.                   *)
(*                                                                         *)
(* Error messages are sequences of tokens, so that `startsWith` and the    *)
(* "[context] " prefix are computed as the code computes them.             *)
(***************************************************************************)
EXTENDS Integers, Sequences, FiniteSets, TLC

\* ------------------------------------------------------------------------
\* Bounds of the model
\* ------------------------------------------------------------------------

\* largest retry limit a caller passes in `retries`
MaxRetries == 3

\* length of one clock tick in ms
TickMs == 15000

\* the clock of one attempt stops counting at this many ticks
MaxElapsed == 3

\* ------------------------------------------------------------------------
\* Constants of lib/http.ts
\* ------------------------------------------------------------------------

DEFAULT_TIMEOUT_MS == 30000

DEFAULT_RETRIES == 3

\* default deadline of fetchWithTimeout (lib/types.ts)
REQUEST_TIMEOUT_MS == 10000

\* `undefined` of `let lastStatus: number | undefined`
NoStatus == 0 - 1

\* value of a variable that holds nothing yet (undefined / no message)
None == << >>

\* context labels: the `name` of the provider configurations that call request()
Contexts == {"Abacus", "NanoGPT"}

\* response statuses the transport answers with
Statuses == {200, 304, 404, 499, 500, 503, 600}

\* decoded bodies of a 2xx response; the schema accepts the first two
Payloads == {"quotaA", "quotaB", "mismatch"}

Conforming == {"quotaA", "quotaB"}

\* messages of the errors fetch() rejects with when no response arrives
NetworkErrors == {<<"fetch failed">>}

AbortError == <<"This operation was aborted">>

\* t.timeoutError(seconds): message fetchWithTimeout throws on an abort
TimeoutMessage == <<"Request timeout">>

\* message of the SyntaxError response.json() rejects with
JsonSyntaxError == <<"Unexpected token in JSON">>

\* message of the error response.text() / response.json() rejects with when
\* the connection breaks while the body is read
BodyReadError == <<"terminated">>

\* ------------------------------------------------------------------------
\* Strings
\* ------------------------------------------------------------------------

\* String.prototype.startsWith
StartsWith(msg, prefix) ==
  /\ Len(msg) >= Len(prefix)
  /\ SubSeq(msg, 1, Len(prefix)) = prefix

\* the template literal `[${context}]`
Bracketed(ctx) == <<"[", ctx, "]">>

\* the template literal `[${context}] ${message}`
Prefixed(ctx, message) == Bracketed(ctx) \o <<" ">> \o message

\* Response.ok
ResponseOk(status) == status >= 200 /\ status < 300

\* ------------------------------------------------------------------------
\* Helper functions of lib/http.ts and lib/utils.ts
\* ------------------------------------------------------------------------

\* variant: every status from 400 up to 600 is retried
isRetryableError_From400(error, status) ==
  IF status = NoStatus
  THEN TRUE
  ELSE status >= 400 /\ status < 600

\* variant: every failure is retried
isRetryableError_Always(error, status) == TRUE

\* variant: only a remembered 5xx status is retried
isRetryableError_StatusOnly(error, status) ==
  status # NoStatus /\ status >= 500 /\ status < 600

isRetryableError(error, status) ==
  IF status = NoStatus
  THEN TRUE
  ELSE status >= 500 /\ status < 600

\* variant: the delay grows linearly
getBackoffDelay_Linear(retryAttempt) == 1000 * (retryAttempt + 1)

getBackoffDelay(retryAttempt) == 1000 * (2 ^ retryAttempt)

\* variant: the prefix is added without looking at the message
wrapErrorWithContext_Always(error, ctx) == Prefixed(ctx, error)

wrapErrorWithContext(error, ctx) ==
  IF StartsWith(error, Bracketed(ctx))
  THEN error
  ELSE Prefixed(ctx, error)

\* the message of the HTTPError built for a response that is not ok
HttpErrorMessage(ctx, status) ==
  Prefixed(ctx, <<"HTTP error", ToString(status)>>)

\* schema.safeParse(data).success
SafeParseSuccess(data) == data \in Conforming

\* the message validateResponse throws with; the last token is the detail
\* zod reports for the payload
ValidationErrorMessage(ctx, data) ==
  Prefixed(ctx, <<"Invalid API response: ", <<"zod", data>> >>)

\* validateResponse: the validated data, or the message of the thrown error
validateResponse(data, ctx) ==
  IF ~SafeParseSuccess(data)
  THEN [ok |-> FALSE, value |-> ValidationErrorMessage(ctx, data)]
  ELSE [ok |-> TRUE, value |-> data]

\* ------------------------------------------------------------------------
\* State of one call of request()
\* ------------------------------------------------------------------------

VARIABLES
  pc,          \* where the call stands: "idle", "fetch", "body", "backoff",
               \* "returned", "raised"; for a call of fetchWithTimeout()
               \* "fwtFetch", "fwtReturned", "fwtRaised"
  context,     \* options.context
  retries,     \* options.retries
  attempt,     \* the loop counter
  lastError,   \* message of lastError, None while undefined
  lastStatus,  \* lastStatus, NoStatus while undefined
  respStatus,  \* status of the response whose body is being read
  timerArmed,  \* the attempt's setTimeout(() => controller.abort()) is pending
  elapsed,     \* ticks since the attempt called fetch()
  calls,       \* number of fetch() calls made
  waits,       \* the backoff delays waited for, in order
  history,     \* outcome of every finished attempt, in order
  result,      \* the value request() resolved with
  thrown       \* message of the error request() rejected with

\* State of one call of a provider adapter (query...Usage)
VARIABLES
  aProvider,   \* the adapter that is called
  aCred,       \* its argument: the credential record, or undefined
  aFile,       \* what the adapter finds in the file it reads itself
  aPc,         \* "idle", "try" (fetching), "format", "done"
  aNetCalls,   \* number of network requests the adapter has issued
  aHistory,    \* what each of these requests was answered with, in order
  aAccounts,   \* Google: the per-account results collected so far
  aFault,      \* message of the error that ended the query, None if none
  aOutcome     \* what the adapter's promise settled with

\* State of one invocation of the mystatus tool (execute)
VARIABLES
  agAuth,      \* what readFile/JSON.parse of auth.json gives: "missing",
               \* "unparsable", "null", "scalar" or "object"
  agCreds,     \* the records under the providers' keys of auth.json
  agFile,      \* state of the Antigravity accounts file
  agPc,        \* "idle", "launch", "await", "returned", "raised"
  agLaunched,  \* the adapters called so far, in call order
  agOutcome,   \* what each adapter's promise settled with, Pending before
  agOrder,     \* the adapters in the order their promises settled
  agResults,   \* the array `results`
  agErrors,    \* the array `errors`
  agText,      \* the text execute() resolved with
  agRaised     \* message of the error execute() rejected with

\* State of one call of a helper of lib/utils.ts
VARIABLES
  uPc,         \* "idle", then "bar" or "mask" (called), "barDone", "maskDone"
  uPercent,    \* createProgressBar: the argument remainPercent
  uWidth,      \* createProgressBar: the argument width
  uBar,        \* createProgressBar: the string returned
  uStr,        \* maskString: the argument str
  uMasked      \* maskString: the string returned

\* State of provider queries that run concurrently under one Promise.all
VARIABLES
  qCred,       \* the credential record each query is called with
  qOptions,    \* the request descriptor each query hands to the executor
  qSent,       \* the headers the executor sends for each query
  qPc,         \* where each query stands: "idle", "try", "done"
  qLastStatus, \* the executor's local lastStatus of each query
  qHistory,    \* what each query's requests were answered with, in order
  qOutcome     \* what each query's promise settled with

httpVars == <<pc, context, retries, attempt, lastError, lastStatus, respStatus,
              timerArmed, elapsed, calls, waits, history, result, thrown>>

adapterVars == <<aProvider, aCred, aFile, aPc, aNetCalls, aHistory, aAccounts,
                 aFault, aOutcome>>

aggVars == <<agAuth, agCreds, agFile, agPc, agLaunched, agOutcome, agOrder,
             agResults, agErrors, agText, agRaised>>

utilVars == <<uPc, uPercent, uWidth, uBar, uStr, uMasked>>

queryVars == <<qCred, qOptions, qSent, qPc, qLastStatus, qHistory, qOutcome>>

vars == <<httpVars, adapterVars, aggVars, utilVars, queryVars>>

timeoutMs == DEFAULT_TIMEOUT_MS

Outcome(status, body) == [status |-> status, body |-> body]

\* no adapter call is in progress
AdapterIdle ==
  /\ aProvider = "openai"
  /\ aCred = [present |-> FALSE, type |-> "none", key |-> FALSE,
              access |-> FALSE, refresh |-> FALSE, token |-> FALSE,
              expired |-> FALSE]
  /\ aFile = "none"
  /\ aPc = "idle"
  /\ aNetCalls = 0
  /\ aHistory = << >>
  /\ aAccounts = << >>
  /\ aFault = None
  /\ aOutcome = [kind |-> "pending", success |-> FALSE, output |-> None,
                 error |-> None]

\* the providers the tool queries, in the order execute() calls them
AggProviders == <<"openai", "zhipu", "zai", "google">>

\* no invocation of the tool is in progress
AggIdle ==
  /\ agAuth = "object"
  /\ agCreds = [p \in {"openai", "zhipu", "zai"} |->
                  [present |-> FALSE, type |-> "none", key |-> FALSE,
                   access |-> FALSE, refresh |-> FALSE, token |-> FALSE,
                   expired |-> FALSE]]
  /\ agFile = "missing"
  /\ agPc = "idle"
  /\ agLaunched = << >>
  /\ agOutcome = [p \in {"openai", "zhipu", "zai", "google"} |->
                    [kind |-> "pending", success |-> FALSE, output |-> None,
                     error |-> None]]
  /\ agOrder = << >>
  /\ agResults = << >>
  /\ agErrors = << >>
  /\ agText = None
  /\ agRaised = None

\* a number of the program: an integer, or NaN
Num(v) == [nan |-> FALSE, val |-> v]

NaN == [nan |-> TRUE, val |-> 0]

\* no helper call is in progress
UtilIdle ==
  /\ uPc = "idle"
  /\ uPercent = Num(0)
  /\ uWidth = 0
  /\ uBar = << >>
  /\ uStr = << >>
  /\ uMasked = << >>

\* the adapters of the concurrent queries: one that calls fetchWithTimeout
\* and two that call request()
QueryProviders == {"zhipu", "abacus-factory", "nanogpt-factory"}

\* no concurrent queries are in progress
QueriesIdle ==
  /\ qCred = [p \in QueryProviders |->
                [present |-> FALSE, type |-> "none", key |-> FALSE,
                 access |-> FALSE, refresh |-> FALSE, token |-> FALSE,
                 expired |-> FALSE]]
  /\ qOptions = [p \in QueryProviders |-> [url |-> p, headers |-> << >>]]
  /\ qSent = [p \in QueryProviders |-> << >>]
  /\ qPc = [p \in QueryProviders |-> "idle"]
  /\ qLastStatus = [p \in QueryProviders |-> NoStatus]
  /\ qHistory = [p \in QueryProviders |-> << >>]
  /\ qOutcome = [p \in QueryProviders |->
                   [kind |-> "pending", success |-> FALSE, output |-> None,
                    error |-> None]]

\* no call of request() is in progress
HttpIdle ==
  /\ pc = "idle"
  /\ context = "Abacus"
  /\ retries = DEFAULT_RETRIES
  /\ attempt = 0
  /\ lastError = None
  /\ lastStatus = NoStatus
  /\ respStatus = NoStatus
  /\ timerArmed = FALSE
  /\ elapsed = 0
  /\ calls = 0
  /\ waits = << >>
  /\ history = << >>
  /\ result = None
  /\ thrown = None

Init ==
  /\ AdapterIdle
  /\ AggIdle
  /\ UtilIdle
  /\ QueriesIdle
  /\ pc = "idle"
  /\ context \in Contexts
  /\ retries \in 0..MaxRetries
  /\ attempt = 0
  /\ lastError = None
  /\ lastStatus = NoStatus
  /\ respStatus = NoStatus
  /\ timerArmed = FALSE
  /\ elapsed = 0
  /\ calls = 0
  /\ waits = << >>
  /\ history = << >>
  /\ result = None
  /\ thrown = None

\* variant: the loop runs while attempt < retries
LoopIteration_OffByOne(n) ==
  /\ attempt' = n
  /\ IF n < retries
     THEN /\ pc' = "fetch"
          /\ timerArmed' = TRUE
          /\ elapsed' = 0
          /\ calls' = calls + 1
          /\ UNCHANGED thrown
     ELSE /\ pc' = "raised"
          /\ thrown' = wrapErrorWithContext(
                         IF lastError = None
                         THEN <<"Unknown error occurred">>
                         ELSE lastError, context)
          /\ UNCHANGED <<timerArmed, elapsed, calls>>

\* top of the for loop for iteration n: the loop test, then the synchronous
\* part of the try block up to `await fetch(...)`
LoopIteration(n) ==
  /\ attempt' = n
  /\ IF n <= retries
     THEN /\ pc' = "fetch"
          /\ timerArmed' = TRUE
          /\ elapsed' = 0
          /\ calls' = calls + 1
          /\ UNCHANGED thrown
     ELSE /\ pc' = "raised"
          /\ thrown' = wrapErrorWithContext(
                         IF lastError = None
                         THEN <<"Unknown error occurred">>
                         ELSE lastError, context)
          /\ UNCHANGED <<timerArmed, elapsed, calls>>

\* variant: the retry decision looks at the remaining budget only
CatchBlock_IgnoresStatus(error, status) ==
  /\ lastError' = error
  /\ IF ~(attempt < retries)
     THEN /\ pc' = "raised"
          /\ thrown' = wrapErrorWithContext(error, context)
          /\ UNCHANGED waits
     ELSE /\ pc' = "backoff"
          /\ waits' = Append(waits, getBackoffDelay(attempt))
          /\ UNCHANGED thrown

\* variant: one more retry than the budget allows
CatchBlock_OneMore(error, status) ==
  /\ lastError' = error
  /\ IF ~(isRetryableError(error, status) /\ attempt <= retries)
     THEN /\ pc' = "raised"
          /\ thrown' = wrapErrorWithContext(error, context)
          /\ UNCHANGED waits
     ELSE /\ pc' = "backoff"
          /\ waits' = Append(waits, getBackoffDelay(attempt))
          /\ UNCHANGED thrown

\* the catch block of the loop body, entered with the error and the value
\* lastStatus has at that point
CatchBlock(error, status) ==
  /\ lastError' = error
  /\ IF ~(isRetryableError(error, status) /\ attempt < retries)
     THEN /\ pc' = "raised"
          /\ thrown' = wrapErrorWithContext(error, context)
          /\ UNCHANGED waits
     ELSE /\ pc' = "backoff"
          /\ waits' = Append(waits, getBackoffDelay(attempt))
          /\ UNCHANGED thrown

\* request(options) is called
Request ==
  /\ UNCHANGED <<adapterVars, aggVars, utilVars, queryVars>>
  /\ pc = "idle"
  /\ LoopIteration(0)
  /\ UNCHANGED <<context, retries, lastError, lastStatus, respStatus, waits,
                 history, result>>

\* time passes while the call is suspended in fetch() or in a body read; an
\* armed timer does not let its deadline pass
Tick ==
  /\ UNCHANGED <<adapterVars, aggVars, utilVars, queryVars>>
  /\ \/ pc = "fetch" /\ timerArmed /\ elapsed * TickMs < timeoutMs
     \/ pc = "fwtFetch" /\ timerArmed /\ elapsed * TickMs < REQUEST_TIMEOUT_MS
     \/ pc = "body" /\ elapsed < MaxElapsed
  /\ elapsed' = elapsed + 1
  /\ UNCHANGED <<pc, context, retries, attempt, lastError, lastStatus,
                 respStatus, timerArmed, calls, waits, history, result, thrown>>

\* fetch() resolves with a response: the finally block clears the timer and
\* lastStatus is set; the call suspends again reading the body
FetchResolves ==
  /\ UNCHANGED <<adapterVars, aggVars, utilVars, queryVars>>
  /\ pc = "fetch"
  /\ \E status \in Statuses :
       /\ lastStatus' = status
       /\ respStatus' = status
  /\ timerArmed' = FALSE
  /\ pc' = "body"
  /\ UNCHANGED <<context, retries, attempt, lastError, elapsed, calls, waits,
                 history, result, thrown>>

\* variant: the timer is cleared only when fetch() resolves
FetchRejects_LeavesTimer ==
  /\ UNCHANGED <<adapterVars, aggVars, utilVars, queryVars>>
  /\ pc = "fetch"
  /\ UNCHANGED timerArmed
  /\ \E error \in NetworkErrors : CatchBlock(error, lastStatus)
  /\ history' = Append(history, Outcome(NoStatus, "network"))
  /\ UNCHANGED <<context, retries, attempt, lastStatus, respStatus, elapsed,
                 calls, result>>

\* fetch() rejects because no response arrived
FetchRejects ==
  /\ UNCHANGED <<adapterVars, aggVars, utilVars, queryVars>>
  /\ pc = "fetch"
  /\ timerArmed' = FALSE
  /\ \E error \in NetworkErrors : CatchBlock(error, lastStatus)
  /\ history' = Append(history, Outcome(NoStatus, "network"))
  /\ UNCHANGED <<context, retries, attempt, lastStatus, respStatus, elapsed,
                 calls, result>>

\* the attempt's timer fires: controller.abort() makes fetch() reject
TimerFires ==
  /\ UNCHANGED <<adapterVars, aggVars, utilVars, queryVars>>
  /\ pc = "fetch"
  /\ timerArmed
  /\ elapsed * TickMs >= timeoutMs
  /\ timerArmed' = FALSE
  /\ CatchBlock(AbortError, lastStatus)
  /\ history' = Append(history, Outcome(NoStatus, "abort"))
  /\ UNCHANGED <<context, retries, attempt, lastStatus, respStatus, elapsed,
                 calls, result>>

\* the body of a response that is not ok has been read: the HTTPError is thrown
ErrorBodyRead ==
  /\ UNCHANGED <<adapterVars, aggVars, utilVars, queryVars>>
  /\ pc = "body"
  /\ ~ResponseOk(respStatus)
  /\ CatchBlock(HttpErrorMessage(context, respStatus), lastStatus)
  /\ history' = Append(history, Outcome(respStatus, "text"))
  /\ UNCHANGED <<context, retries, attempt, lastStatus, respStatus, timerArmed,
                 elapsed, calls, result>>

\* reading the body rejects (response.text() or response.json())
BodyReadFails ==
  /\ UNCHANGED <<adapterVars, aggVars, utilVars, queryVars>>
  /\ pc = "body"
  /\ \E isJson \in BOOLEAN :
       LET error == IF ResponseOk(respStatus) /\ isJson
                    THEN JsonSyntaxError ELSE BodyReadError
       IN  /\ CatchBlock(error, lastStatus)
           /\ history' = Append(history,
                Outcome(respStatus,
                        IF error = JsonSyntaxError THEN "badjson" ELSE "readfail"))
  /\ UNCHANGED <<context, retries, attempt, lastStatus, respStatus, timerArmed,
                 elapsed, calls, result>>

\* the body of an ok response has been decoded: it is validated and returned,
\* or the validation error is thrown
OkBodyRead ==
  /\ UNCHANGED <<adapterVars, aggVars, utilVars, queryVars>>
  /\ pc = "body"
  /\ ResponseOk(respStatus)
  /\ \E rawData \in Payloads :
       LET v == validateResponse(rawData, context)
       IN  /\ history' = Append(history, Outcome(respStatus, rawData))
           /\ IF v.ok
              THEN /\ pc' = "returned"
                   /\ result' = v.value
                   /\ UNCHANGED <<lastError, waits, thrown>>
              ELSE /\ CatchBlock(v.value, lastStatus)
                   /\ UNCHANGED result
  /\ UNCHANGED <<context, retries, attempt, lastStatus, respStatus, timerArmed,
                 elapsed, calls>>

\* the backoff wait is over: attempt++ and the next iteration
BackoffElapsed ==
  /\ UNCHANGED <<adapterVars, aggVars, utilVars, queryVars>>
  /\ pc = "backoff"
  /\ LoopIteration(attempt + 1)
  /\ UNCHANGED <<context, retries, lastError, lastStatus, respStatus, waits,
                 history, result>>

\* fetchWithTimeout(url, options) is called with the default deadline: the
\* timer is armed and fetch() is awaited
FwtCall ==
  /\ UNCHANGED <<adapterVars, aggVars, utilVars, queryVars>>
  /\ pc = "idle"
  /\ pc' = "fwtFetch"
  /\ timerArmed' = TRUE
  /\ elapsed' = 0
  /\ calls' = calls + 1
  /\ UNCHANGED <<context, retries, attempt, lastError, lastStatus, respStatus,
                 waits, history, result, thrown>>

\* fetch() resolves: the response is returned, finally clears the timer
FwtResolves ==
  /\ UNCHANGED <<adapterVars, aggVars, utilVars, queryVars>>
  /\ pc = "fwtFetch"
  /\ \E status \in Statuses : respStatus' = status
  /\ timerArmed' = FALSE
  /\ pc' = "fwtReturned"
  /\ UNCHANGED <<context, retries, attempt, lastError, lastStatus, elapsed,
                 calls, waits, history, result, thrown>>

\* fetch() rejects with an error that is not an abort: it is rethrown,
\* finally clears the timer
FwtRejects ==
  /\ UNCHANGED <<adapterVars, aggVars, utilVars, queryVars>>
  /\ pc = "fwtFetch"
  /\ \E error \in NetworkErrors : thrown' = error
  /\ timerArmed' = FALSE
  /\ pc' = "fwtRaised"
  /\ UNCHANGED <<context, retries, attempt, lastError, lastStatus, respStatus,
                 elapsed, calls, waits, history, result>>

\* the timer fires: controller.abort() makes fetch() reject with an
\* AbortError, which is replaced by the timeout error
FwtTimerFires ==
  /\ UNCHANGED <<adapterVars, aggVars, utilVars, queryVars>>
  /\ pc = "fwtFetch"
  /\ timerArmed
  /\ elapsed * TickMs >= REQUEST_TIMEOUT_MS
  /\ thrown' = TimeoutMessage
  /\ timerArmed' = FALSE
  /\ pc' = "fwtRaised"
  /\ UNCHANGED <<context, retries, attempt, lastError, lastStatus, respStatus,
                 elapsed, calls, waits, history, result>>

Next ==
  \/ Request
  \/ Tick
  \/ FetchResolves
  \/ FetchRejects
  \/ TimerFires
  \/ ErrorBodyRead
  \/ BodyReadFails
  \/ OkBodyRead
  \/ BackoffElapsed
  \/ FwtCall
  \/ FwtResolves
  \/ FwtRejects
  \/ FwtTimerFires

Spec == Init /\ [][Next]_vars

\* the same program where time passes, an armed timer fires when its deadline
\* is reached and a backoff wait ends; nothing is assumed of the server, which
\* may never answer and may never finish sending a body
LiveSpec ==
  /\ Init
  /\ [][Next]_vars
  /\ WF_vars(Tick)
  /\ WF_vars(TimerFires)
  /\ WF_vars(FwtTimerFires)
  /\ WF_vars(BackoffElapsed)

TypeOK ==
  /\ pc \in {"idle", "fetch", "body", "backoff", "returned", "raised",
            "fwtFetch", "fwtReturned", "fwtRaised"}
  /\ attempt \in 0..(MaxRetries + 2)
  /\ lastStatus \in Statuses \cup {NoStatus}

\* ------------------------------------------------------------------------
\* Properties of request()
\* ------------------------------------------------------------------------

Last(s) == s[Len(s)]

\* the call has not ended and goes on to (or is in) another attempt
Continuing == pc \in {"backoff", "fetch", "body"}

Ended == pc \in {"returned", "raised"}

\* an attempt that ended otherwise than with a validated 2xx payload
Failed(o) == ~(ResponseOk(o.status) /\ o.body \in Conforming)

\* the retryable outcomes as the specification states them
NoResponseOr5xx(o) ==
  \/ o.status = NoStatus
  \/ o.status >= 500 /\ o.status < 600

\* C1: after a failed attempt request() goes on to another attempt exactly
\* when retry budget remains and the attempt got no response or a status in
\* [500, 600); every other failed attempt ends the call with a raised error.
C1_RetryIffNoResponseOr5xx ==
  (history # << >> /\ Failed(Last(history))) =>
    IF NoResponseOr5xx(Last(history)) /\ Len(history) <= retries
    THEN Continuing
    ELSE pc = "raised" /\ thrown # None

C1_Witness ==
  /\ Len(history) = 2
  /\ history[1].status = NoStatus
  /\ history[2].status = 404
  /\ pc = "raised"

Is4xx(status) == status >= 400 /\ status < 500

\* C2: a response with a status in [400, 500) is terminal on whichever
\* attempt it occurs: it is the last attempt, the call raises, and no
\* transport call and no backoff wait follows it (so a 404 on the first
\* attempt leaves exactly one call).
C2_ClientErrorTerminal ==
  \A i \in 1..Len(history) :
    Is4xx(history[i].status) =>
      /\ i = Len(history)
      /\ pc = "raised"
      /\ calls = i
      /\ Len(waits) = i - 1

C2_Witness ==
  /\ Len(history) = 2
  /\ history[1].status = 503
  /\ history[2].status = 404
  /\ calls = 2
  /\ pc = "raised"

Is500(o) == o.status = 500 /\ o.body = "text"

\* C3: while the transport has answered 500 on every attempt so far and
\* retry budget remains, the call goes on; when the 500s are followed by a
\* 200 with a conforming payload on attempt N, the call returns that
\* payload and exactly N transport calls have been made.
C3_SucceedsOnAttemptN ==
  LET n == Len(history) IN
  (n >= 1 /\ \A i \in 1..(n - 1) : Is500(history[i])) =>
    /\ (Is500(history[n]) /\ n <= retries) => Continuing
    /\ (history[n].status = 200 /\ history[n].body \in Conforming) =>
         /\ pc = "returned"
         /\ result = history[n].body
         /\ calls = n
         /\ n <= retries + 1

C3_Witness ==
  /\ retries = DEFAULT_RETRIES
  /\ Len(history) = 4
  /\ \A i \in 1..3 : Is500(history[i])
  /\ history[4] = Outcome(200, "quotaB")
  /\ pc = "returned"
  /\ result = "quotaB"
  /\ calls = 4

Is503(o) == o.status = 503 /\ o.body = "text"

RECURSIVE TwoToThe(_)
TwoToThe(k) == IF k = 0 THEN 1 ELSE 2 * TwoToThe(k - 1)

\* C4: when the transport answers 503 on every attempt, the call ends only
\* by raising after exactly retries+1 transport calls, and the wait
\* between call k and call k+1 is 1000 * 2^k ms: 1000, 2000, 4000 for the
\* default retries = 3.
C4_Always503 ==
  (Ended /\ \A i \in 1..Len(history) : Is503(history[i])) =>
    /\ pc = "raised"
    /\ calls = retries + 1
    /\ Len(history) = retries + 1
    /\ waits = [k \in 1..retries |-> 1000 * TwoToThe(k - 1)]
    /\ retries = DEFAULT_RETRIES => waits = <<1000, 2000, 4000>>

C4_Witness ==
  /\ retries = DEFAULT_RETRIES
  /\ pc = "raised"
  /\ Len(history) = 4
  /\ \A i \in 1..4 : Is503(history[i])
  /\ waits = <<1000, 2000, 4000>>

IsInvalid2xx(o) == ResponseOk(o.status) /\ o.body \in (Payloads \ Conforming)

\* C6: a 2xx response whose decoded body fails schema validation is never
\* retried: it is the last attempt, the call raises with no further
\* transport call or wait even when budget remains, and the raised message
\* carries the context label and the shape-mismatch detail.
C6_ValidationNotRetried ==
  \A i \in 1..Len(history) :
    IsInvalid2xx(history[i]) =>
      /\ i = Len(history)
      /\ pc = "raised"
      /\ calls = i
      /\ Len(waits) = i - 1
      /\ StartsWith(thrown, Bracketed(context))
      /\ Last(thrown) = <<"zod", history[i].body>>

C6_Witness ==
  /\ retries = DEFAULT_RETRIES
  /\ Len(history) = 1
  /\ IsInvalid2xx(history[1])
  /\ pc = "raised"
  /\ calls = 1

\* C7: each attempt is bounded by its deadline: while an attempt is in
\* flight (waiting for the response or reading its body) no more than
\* timeoutMs has passed since it started.
C7_AttemptWithinDeadline ==
  pc \in {"fetch", "body"} => elapsed * TickMs <= timeoutMs

\* the message without its first four tokens "[", context, "]", " "
AfterPrefix(msg) == SubSeq(msg, 5, Len(msg))

\* C8: every error request() raises has a message that starts with
\* "[context] " and carries that prefix once: an error that already starts
\* with the prefix is raised unchanged, any other is wrapped once, and
\* wrapping the raised message again with the same context changes nothing.
C8_PrefixedExactlyOnce ==
  pc = "raised" =>
    /\ StartsWith(thrown, Prefixed(context, << >>))
    /\ ~StartsWith(AfterPrefix(thrown), Bracketed(context))
    /\ StartsWith(lastError, Prefixed(context, << >>)) => thrown = lastError
    /\ ~StartsWith(lastError, Prefixed(context, << >>)) =>
         thrown = Prefixed(context, lastError)
    /\ wrapErrorWithContext(thrown, context) = thrown

C8_Witness ==
  /\ pc = "raised"
  /\ lastError \in NetworkErrors
  /\ thrown = Prefixed(context, lastError)

\* C28: request() always terminates: once a call has started it eventually
\* returns a validated result or raises an error.
C28_RequestTerminates ==
  (pc \in {"fetch", "body", "backoff"}) ~> Ended

\* C29: the retry decision after a failed attempt depends only on that
\* attempt's own outcome: when the catch block has decided, the decision it
\* took with the remembered lastStatus is the one the attempt's own status
\* gives, and an attempt only ever starts with lastStatus undefined or in
\* [500, 600).
C29_DecisionFromOwnOutcome ==
  /\ (pc \in {"backoff", "raised"} /\ history # << >>) =>
       (isRetryableError(lastError, lastStatus)
          <=> isRetryableError(lastError, Last(history).status))
  /\ pc = "fetch" =>
       \/ lastStatus = NoStatus
       \/ lastStatus >= 500 /\ lastStatus < 600

C29_Witness ==
  /\ Len(history) = 2
  /\ history[1].status = 503
  /\ history[2].status = NoStatus
  /\ lastStatus = 503
  /\ pc = "backoff"

\* C30: no timeout timer outlives its attempt: a timer is armed only while
\* its own fetch() is pending, so none is armed during a body read, a backoff
\* wait or after request() or fetchWithTimeout() has returned or raised, and
\* an attempt is aborted only when its own deadline has passed.
C30_TimerClearedWithAttempt ==
  /\ timerArmed => pc \in {"fetch", "fwtFetch"}
  /\ (pc \in {"backoff", "raised"} /\ history # << >>
        /\ Last(history).body = "abort") => elapsed * TickMs >= timeoutMs
  /\ (pc = "fwtRaised" /\ thrown = TimeoutMessage) =>
       elapsed * TickMs >= REQUEST_TIMEOUT_MS

C30_Witness ==
  /\ Len(history) = 1
  /\ history[1].body = "abort"
  /\ pc = "fetch"
  /\ timerArmed
  /\ elapsed = 0

\* ------------------------------------------------------------------------
\* Provider adapters
\* ------------------------------------------------------------------------

\* the adapters, named after their modules; "-factory" marks the variant of
\* a module that is built with lib/provider-factory.ts
Providers ==
  {"openai", "zhipu", "zai", "google", "copilot", "anthropic", "groq",
   "gemini", "kimi", "kimi-code", "minimax", "abacus", "nanogpt", "chutes",
   "abacus-factory", "nanogpt-factory", "anthropic-factory", "groq-factory"}

\* adapters built by createProviderQuery: they call request()
RequestFactoryProviders == {"abacus-factory", "nanogpt-factory"}

\* adapters built by createProviderQueryWithHeaders: they call fetchWithTimeout()
HeaderFactoryProviders == {"anthropic-factory", "groq-factory"}

\* adapters whose guard is `!authData || authData.type !== "api" || !authData.key`
ApiKeyProviders == {"zhipu", "zai", "anthropic", "groq", "gemini"}

\* adapters whose guard is `!authData || !authData.key`
KeyProviders ==
  {"kimi", "kimi-code", "minimax", "abacus", "nanogpt"}
    \cup RequestFactoryProviders \cup HeaderFactoryProviders

\* adapters whose catch block calls handleProviderError
HandleProviderErrorUsers ==
  {"google", "copilot", "minimax", "chutes"}
    \cup RequestFactoryProviders \cup HeaderFactoryProviders

\* the context label the adapter passes to request() / handleProviderError
Label(p) ==
  CASE p = "google" -> "Google"
    [] p = "copilot" -> "Copilot"
    [] p = "minimax" -> "MiniMax"
    [] p = "chutes" -> "Chutes"
    [] p = "abacus-factory" -> "Abacus"
    [] p = "nanogpt-factory" -> "NanoGPT"
    [] p = "anthropic-factory" -> "Anthropic"
    [] p = "groq-factory" -> "Groq"
    [] OTHER -> p

\* credential records: `undefined`, an API-key record of auth.json, an OAuth
\* record of auth.json, and a record of mystatus.json (no type tag)
Cred(present, type, key, access, refresh, token, expired) ==
  [present |-> present, type |-> type, key |-> key, access |-> access,
   refresh |-> refresh, token |-> token, expired |-> expired]

Undefined == Cred(FALSE, "none", FALSE, FALSE, FALSE, FALSE, FALSE)

Credentials ==
  {Undefined}
    \cup {Cred(TRUE, "api", k, FALSE, FALSE, FALSE, FALSE) : k \in BOOLEAN}
    \cup {Cred(TRUE, "oauth", FALSE, a, r, FALSE, e) :
            a \in BOOLEAN, r \in BOOLEAN, e \in BOOLEAN}
    \cup {Cred(TRUE, "none", k, FALSE, FALSE, t, FALSE) :
            k \in BOOLEAN, t \in BOOLEAN}

\* what the adapter finds in the file it reads itself: the Copilot quota
\* config (none, invalid, pat) or the Antigravity accounts file
FileStates(p) ==
  CASE p = "copilot" -> {"none", "invalid", "pat"}
    [] p = "google" -> {"missing", "unparsable", "noaccounts", "noemail",
                        "one", "two"}
    [] OTHER -> {"none"}

\* validAccounts.length
NumAccounts(file) ==
  CASE file = "one" -> 1
    [] file = "two" -> 2
    [] OTHER -> 0

\* results an adapter settles with
Pending == [kind |-> "pending", success |-> FALSE, output |-> None, error |-> None]

NullResult == [kind |-> "null", success |-> FALSE, output |-> None, error |-> None]

Success(output) ==
  [kind |-> "record", success |-> TRUE, output |-> output, error |-> None]

Failure(error) ==
  [kind |-> "record", success |-> FALSE, output |-> None, error |-> error]

Raised(error) ==
  [kind |-> "raised", success |-> FALSE, output |-> None, error |-> error]

\* variant: the error is thrown on instead of being turned into a record
handleProviderError_Rethrows(err, ctx) == Raised(Prefixed(ctx, err))

\* variant: the message is put in `output` and `error` is left out
handleProviderError_AsOutput(err, ctx) ==
  [kind |-> "record", success |-> FALSE, output |-> Prefixed(ctx, err),
   error |-> None]

handleProviderError(err, ctx) == Failure(Prefixed(ctx, err))

\* the catch block of adapter p
AdapterCatch(p, err) ==
  IF p \in HandleProviderErrorUsers
  THEN handleProviderError(err, Label(p))
  ELSE Failure(err)

\* messages

ApiErrorMessage(status) == <<"API error", ToString(status)>>

AuthErrorMessage == <<"Invalid API key">>

TokenExpiredMessage == <<"OAuth token expired">>

CopilotUnavailableMessage == <<"Copilot quota unavailable", "workaround">>

NoProjectIdMessage == <<"no project id">>

NoQuotaData == <<"no quota data">>

FileNotFound == <<"ENOENT: no such file or directory">>

TypeErrorMessage == <<"Cannot read properties of undefined">>

\* the messages request() rejects with
RaisedByRequest(ctx) ==
  {HttpErrorMessage(ctx, st) : st \in {x \in Statuses : ~ResponseOk(x)}}
    \cup {ValidationErrorMessage(ctx, d) : d \in Payloads \ Conforming}
    \cup {Prefixed(ctx, e) :
            e \in NetworkErrors \cup {AbortError, JsonSyntaxError, BodyReadError}}

\* the messages of the failures request() retries while budget remains: no
\* response (network error, abort) or a status in [500, 600)
RetriedByRequest(ctx) ==
  {HttpErrorMessage(ctx, st) : st \in {x \in Statuses : x >= 500 /\ x < 600}}
    \cup {Prefixed(ctx, e) : e \in NetworkErrors \cup {AbortError}}

\* the adapters' view of request() covers what request() does: every message
\* it rejects with is one of RaisedByRequest, after at most CallLimit calls,
\* and one of RetriedByRequest only after the last of them
RequestRaisesOnlyThese ==
  /\ pc = "raised" => thrown \in RaisedByRequest(context)
  /\ retries = DEFAULT_RETRIES => calls <= DEFAULT_RETRIES + 1
  /\ (pc = "raised" /\ thrown \in RetriedByRequest(context)) =>
       calls = retries + 1

\* the messages fetchWithTimeout rejects with
RaisedByFetchWithTimeout == {TimeoutMessage} \cup NetworkErrors

\* adapters that map a vendor's "invalid credential" status to a fixed
\* authentication message, and that status
AuthMappingProviders ==
  {"anthropic", "groq", "gemini", "minimax", "abacus", "nanogpt", "chutes"}

AuthStatus(p) == IF p = "gemini" THEN 400 ELSE 401

\* adapters that read rate-limit headers and leave the body of an ok
\* response unread
HeaderReaders == {"anthropic", "groq", "gemini", "minimax"}

\* adapters that throw t.apiError(data.code, ...) on a decoded body whose
\* own status code is not 200
BodyCodeCheckers == {"zhipu", "zai", "kimi", "kimi-code"}

\* the statuses a vendor answers adapter p with
AdapterStatuses(p) ==
  IF p \in RequestFactoryProviders THEN Statuses
  ELSE {200, 401, 500}
         \cup (IF p = "gemini" THEN {400} ELSE {})
         \cup (IF p = "nanogpt" THEN {429} ELSE {})

\* what one network request of adapter p is answered with: nothing (a
\* network error, or the abort of the timeout), a response that is not ok,
\* or an ok response with a conforming, a mismatching or an undecodable
\* body; reads of a body that break off are followed for request() only
AdapterResponses(p) ==
  {Outcome(NoStatus, b) : b \in {"network", "abort"}}
    \cup {Outcome(st, "text") : st \in {x \in AdapterStatuses(p) : ~ResponseOk(x)}}
    \cup {Outcome(st, b) : st \in {x \in AdapterStatuses(p) : ResponseOk(x)},
                           b \in {"quotaA", "mismatch", "badjson"}}
    \cup (IF p \in RequestFactoryProviders
          THEN {Outcome(st, "readfail") : st \in AdapterStatuses(p)}
          ELSE {})

NoResponse(r) == r.status = NoStatus

\* the error fetchWithTimeout rejects with when no response arrives
TransportError(r) ==
  IF r.body = "abort" THEN TimeoutMessage ELSE CHOOSE e \in NetworkErrors : TRUE

RateLimitMessage == <<"Rate limit exceeded">>

AllEndpointsFailedMessage == <<"All API endpoints failed">>

\* t.apiError(data.code, data.msg) for a body that reports its own error
BodyCodeErrorMessage == <<"API error", "code">>

\* what the fetching part of an adapter does when a request is answered
GoOn == [do |-> "next", error |-> None]

Got == [do |-> "format", error |-> None]

Throw(error) == [do |-> "throw", error |-> error]

\* attempt n of request() with the default retry budget, answered with r;
\* status is the value lastStatus has in the catch block
requestAttempt(ctx, n, r, status) ==
  LET error ==
        IF NoResponse(r)
        THEN (IF r.body = "abort" THEN AbortError
              ELSE CHOOSE e \in NetworkErrors : TRUE)
        ELSE IF r.body = "readfail" THEN BodyReadError
        ELSE IF ~ResponseOk(r.status) THEN HttpErrorMessage(ctx, r.status)
        ELSE IF r.body = "badjson" THEN JsonSyntaxError
        ELSE validateResponse(r.body, ctx).value
  IN  IF ~NoResponse(r) /\ ResponseOk(r.status) /\ r.body \in Conforming
      THEN Got
      ELSE IF isRetryableError(error, status) /\ n - 1 < DEFAULT_RETRIES
      THEN GoOn
      ELSE Throw(wrapErrorWithContext(error, ctx))

\* the same with lastStatus taken to be the attempt's own status, which
\* gives the same decision (C29)
requestStep(ctx, n, r) == requestAttempt(ctx, n, r, r.status)

\* createProviderQueryWithHeaders: the status of the response is not looked at
headersStep(r) ==
  IF NoResponse(r) THEN Throw(TransportError(r)) ELSE Got

\* the adapters that issue one request: fetchOpenAIUsage, fetchUsage (zhipu),
\* fetchKimiBalance, fetchAnthropicRateLimits, fetchGroqRateLimits,
\* fetchGeminiRateLimits
singleStep(p, r) ==
  IF NoResponse(r) THEN Throw(TransportError(r))
  ELSE IF p \in AuthMappingProviders /\ r.status = AuthStatus(p)
  THEN Throw(AuthErrorMessage)
  ELSE IF ~ResponseOk(r.status) THEN Throw(ApiErrorMessage(r.status))
  ELSE IF p \in HeaderReaders THEN Got
  ELSE IF r.body = "badjson" THEN Throw(JsonSyntaxError)
  ELSE IF r.body = "mismatch" /\ p \in BodyCodeCheckers
  THEN Throw(BodyCodeErrorMessage)
  ELSE Got

\* variant: the fallback is tried only after no response or a 5xx status
fetchMinimaxRateLimits_Only5xx(n, r) ==
  IF NoResponse(r)
  THEN (IF n = 1 THEN GoOn ELSE Throw(TransportError(r)))
  ELSE IF r.status = 401 THEN Throw(AuthErrorMessage)
  ELSE IF ~ResponseOk(r.status)
  THEN (IF n = 1 /\ r.status >= 500 THEN GoOn
        ELSE Throw(ApiErrorMessage(r.status)))
  ELSE IF r.body = "mismatch"
  THEN Throw(ValidationErrorMessage("MiniMax", "mismatch"))
  ELSE Got

\* MiniMax: the primary URL inside a try whose bare catch requests the
\* fallback URL; n = 1 is the primary request, n = 2 the fallback
fetchMinimaxRateLimits(n, r) ==
  IF n = 1
  THEN (IF ~NoResponse(r) /\ ResponseOk(r.status) /\ r.body # "mismatch"
        THEN Got ELSE GoOn)
  ELSE IF NoResponse(r) THEN Throw(TransportError(r))
  ELSE IF r.status = 401 THEN Throw(AuthErrorMessage)
  ELSE IF ~ResponseOk(r.status) THEN Throw(ApiErrorMessage(r.status))
  ELSE IF r.body = "mismatch"
  THEN Throw(ValidationErrorMessage("MiniMax", "mismatch"))
  ELSE Got

\* Abacus: the loop over the three endpoints
fetchAbacusUsage(n, r) ==
  IF ~NoResponse(r) /\ r.status = 401 THEN Throw(AuthErrorMessage)
  ELSE IF ~NoResponse(r) /\ ResponseOk(r.status) /\ r.body # "badjson" THEN Got
  ELSE IF n < 3 THEN GoOn
  ELSE Throw(AllEndpointsFailedMessage)

\* NanoGPT: /account (n = 1), then /balance (n = 2)
fetchNanoGptAccount(n, r) ==
  IF ~NoResponse(r) /\ r.status = 401 THEN Throw(AuthErrorMessage)
  ELSE IF ~NoResponse(r) /\ r.status = 429 THEN Throw(RateLimitMessage)
  ELSE IF ~NoResponse(r) /\ ResponseOk(r.status) /\ r.body # "badjson" THEN Got
  ELSE IF n = 1 THEN GoOn
  ELSE IF NoResponse(r) THEN Throw(TransportError(r))
  ELSE IF ResponseOk(r.status) THEN Throw(JsonSyntaxError)
  ELSE Throw(ApiErrorMessage(r.status))

\* Chutes: fetchChutesQuotaUsage and fetchChutesQuotas are started together;
\* n counts their answers in the order they arrive
fetchChutes(n, r) ==
  IF NoResponse(r) THEN Throw(TransportError(r))
  ELSE IF ~ResponseOk(r.status)
  THEN (IF r.status = 401 THEN Throw(AuthErrorMessage)
        ELSE Throw(ApiErrorMessage(r.status)))
  ELSE IF r.body = "badjson" THEN Throw(JsonSyntaxError)
  ELSE IF r.body = "mismatch"
  THEN Throw(ValidationErrorMessage("Chutes", "mismatch"))
  ELSE IF n = 1 THEN GoOn
  ELSE Got

\* an ok response of the Copilot usage endpoints: decoded and validated
copilotDecode(r) ==
  IF r.body = "badjson" THEN Throw(JsonSyntaxError)
  ELSE IF r.body = "mismatch"
  THEN Throw(ValidationErrorMessage("Copilot", "mismatch"))
  ELSE Got

\* Copilot with a PAT config: fetchPublicBillingUsage
fetchPublicBillingUsage(r) ==
  IF NoResponse(r) THEN Throw(TransportError(r))
  ELSE IF ~ResponseOk(r.status) THEN Throw(ApiErrorMessage(r.status))
  ELSE copilotDecode(r)

\* Copilot with an OAuth record: the cached token (strategy 1, skipped
\* without a live cached token), the legacy header (2), the token exchange
\* (3), the exchanged token (4)
fetchCopilotUsage(cred, n, r) ==
  LET strategy == IF cred.access /\ ~cred.expired THEN n ELSE n + 1
  IN  IF strategy = 3
      THEN (IF ~NoResponse(r) /\ ResponseOk(r.status) /\ r.body = "quotaA"
            THEN GoOn ELSE Throw(CopilotUnavailableMessage))
      ELSE IF NoResponse(r) THEN Throw(TransportError(r))
      ELSE IF ResponseOk(r.status) THEN copilotDecode(r)
      ELSE IF strategy < 3 THEN GoOn
      ELSE Throw(ApiErrorMessage(r.status))

\* Google: refreshAccessToken calls fetch() without a timeout
refreshAccessToken(r) ==
  IF NoResponse(r) THEN Throw(CHOOSE e \in NetworkErrors : TRUE)
  ELSE IF ~ResponseOk(r.status) THEN Throw(ApiErrorMessage(r.status))
  ELSE IF r.body = "badjson" THEN Throw(JsonSyntaxError)
  ELSE Got

\* Google: fetchGoogleUsage
fetchGoogleUsage(r) ==
  IF NoResponse(r) THEN Throw(TransportError(r))
  ELSE IF ~ResponseOk(r.status) THEN Throw(ApiErrorMessage(r.status))
  ELSE IF r.body = "badjson" THEN Throw(JsonSyntaxError)
  ELSE IF r.body = "mismatch"
  THEN Throw(ValidationErrorMessage("Google", "mismatch"))
  ELSE Got

\* what adapter p does when its n-th request is answered with r
Step(p, cred, file, n, r) ==
  CASE p \in RequestFactoryProviders -> requestStep(Label(p), n, r)
    [] p \in HeaderFactoryProviders -> headersStep(r)
    [] p = "minimax" -> fetchMinimaxRateLimits(n, r)
    [] p = "abacus" -> fetchAbacusUsage(n, r)
    [] p = "nanogpt" -> fetchNanoGptAccount(n, r)
    [] p = "chutes" -> fetchChutes(n, r)
    [] p = "copilot" ->
         IF file = "pat" THEN fetchPublicBillingUsage(r)
         ELSE fetchCopilotUsage(cred, n, r)
    [] OTHER -> singleStep(p, r)

\* the messages the fetching part of adapter p throws with
FetchErrors(p) ==
  IF p = "google"
  THEN {refreshAccessToken(r).error :
          r \in {x \in AdapterResponses(p) :
                   x.body # "abort" /\ refreshAccessToken(x).do = "throw"}}
         \cup {fetchGoogleUsage(r).error :
                 r \in {x \in AdapterResponses(p) :
                          fetchGoogleUsage(x).do = "throw"}}
  ELSE {Step(p, Undefined, "none", 1, r).error :
          r \in {x \in AdapterResponses(p) :
                   Step(p, Undefined, "none", 1, x).do = "throw"}}

\* the largest number of network requests one query of adapter p issues
CallLimit(p, file) ==
  CASE p \in RequestFactoryProviders -> DEFAULT_RETRIES + 1
    [] p \in {"chutes", "minimax", "nanogpt"} -> 2
    [] p = "abacus" -> 3
    [] p = "copilot" -> IF file = "pat" THEN 1 ELSE 4
    [] OTHER -> 1

\* the guard at the head of adapter p: "null", "go", or the record it
\* returns or the error it throws before any request
Guard(p, cred, file) ==
  CASE p \in KeyProviders ->
         IF ~cred.present \/ ~cred.key
         THEN [do |-> "return", value |-> NullResult]
         ELSE [do |-> "go", value |-> Pending]
    [] p \in ApiKeyProviders ->
         IF ~cred.present \/ cred.type # "api" \/ ~cred.key
         THEN [do |-> "return", value |-> NullResult]
         ELSE [do |-> "go", value |-> Pending]
    [] p = "chutes" ->
         IF ~cred.present \/ ~cred.token
         THEN [do |-> "return", value |-> NullResult]
         ELSE [do |-> "go", value |-> Pending]
    [] p = "openai" ->
         IF ~cred.present \/ cred.type # "oauth" \/ ~cred.access
         THEN [do |-> "return", value |-> NullResult]
         ELSE IF cred.expired
         THEN [do |-> "return", value |-> Failure(TokenExpiredMessage)]
         ELSE [do |-> "go", value |-> Pending]
    [] p = "copilot" ->
         IF file = "pat"
         THEN [do |-> "go", value |-> Pending]
         ELSE IF ~cred.present \/ cred.type # "oauth" \/ ~cred.refresh
         THEN [do |-> "return", value |-> Failure(CopilotUnavailableMessage)]
         ELSE [do |-> "go", value |-> Pending]
    [] p = "google" ->
         IF file = "missing"
         THEN [do |-> "throw", value |-> Failure(FileNotFound)]
         ELSE IF file = "unparsable"
         THEN [do |-> "throw", value |-> Failure(JsonSyntaxError)]
         ELSE IF file \in {"noaccounts", "noemail"}
         THEN [do |-> "return", value |-> Success(NoQuotaData)]
         ELSE [do |-> "go", value |-> Pending]

\* Array.prototype.join: the texts with the separator between them
RECURSIVE Join(_, _)
Join(texts, separator) ==
  IF Len(texts) = 0 THEN << >>
  ELSE IF Len(texts) = 1 THEN texts[1]
  ELSE texts[1] \o separator \o Join(Tail(texts), separator)

\* Google: the array `outputs` queryGoogleUsage builds from the per-account
\* results
RECURSIVE GoogleOutputs(_)
GoogleOutputs(accounts) ==
  IF Len(accounts) = 0 THEN << >>
  ELSE LET a == Head(accounts)
           line == IF ~a.success THEN << <<"email", ": ">> \o a.error >>
                   ELSE IF a.models THEN << <<"email", "quota">> >>
                   ELSE << >>
       IN  line \o GoogleOutputs(Tail(accounts))

\* Google: the record queryGoogleUsage returns for the per-account results
GoogleResult(accounts) ==
  IF Len(GoogleOutputs(accounts)) = 0
  THEN Success(NoQuotaData)
  ELSE Success(Join(GoogleOutputs(accounts), <<"\n\n">>))

AdapterInit ==
  /\ AggIdle
  /\ UtilIdle
  /\ QueriesIdle
  /\ pc = "idle"
  /\ context = "Abacus"
  /\ retries = DEFAULT_RETRIES
  /\ attempt = 0
  /\ lastError = None
  /\ lastStatus = NoStatus
  /\ respStatus = NoStatus
  /\ timerArmed = FALSE
  /\ elapsed = 0
  /\ calls = 0
  /\ waits = << >>
  /\ history = << >>
  /\ result = None
  /\ thrown = None
  /\ aProvider \in Providers
  /\ aCred \in Credentials
  /\ aFile \in FileStates(aProvider)
  /\ aPc = "idle"
  /\ aNetCalls = 0
  /\ aHistory = << >>
  /\ aAccounts = << >>
  /\ aFault = None
  /\ aOutcome = Pending

\* the adapter is called: its guard, up to the first request
Query ==
  /\ UNCHANGED <<httpVars, aggVars, utilVars, queryVars>>
  /\ aPc = "idle"
  /\ LET g == Guard(aProvider, aCred, aFile) IN
       CASE g.do = "go" ->
              /\ aPc' = "try"
              /\ UNCHANGED <<aOutcome, aFault>>
         [] g.do = "return" ->
              /\ aPc' = "done"
              /\ aOutcome' = g.value
              /\ UNCHANGED aFault
         [] g.do = "throw" ->
              /\ aPc' = "done"
              /\ aFault' = g.value.error
              /\ aOutcome' = AdapterCatch(aProvider, g.value.error)
  /\ UNCHANGED <<aProvider, aCred, aFile, aNetCalls, aHistory, aAccounts>>

\* one network request of the adapter's fetching part is answered: the
\* adapter goes on to another request (a retry, the next endpoint, the
\* fallback, the next strategy), has its data, or throws
NetworkCall ==
  /\ UNCHANGED <<httpVars, aggVars, utilVars, queryVars>>
  /\ aPc = "try"
  /\ aProvider # "google"
  /\ aNetCalls < CallLimit(aProvider, aFile)
  /\ aNetCalls' = aNetCalls + 1
  /\ \E r \in AdapterResponses(aProvider) :
       LET s == Step(aProvider, aCred, aFile, aNetCalls + 1, r)
       IN  /\ aHistory' = Append(aHistory, r)
           /\ CASE s.do = "next" ->
                     UNCHANGED <<aPc, aFault, aOutcome>>
                [] s.do = "format" ->
                     /\ aPc' = "format"
                     /\ UNCHANGED <<aFault, aOutcome>>
                [] s.do = "throw" ->
                     /\ aPc' = "done"
                     /\ aFault' = s.error
                     /\ aOutcome' = AdapterCatch(aProvider, s.error)
  /\ UNCHANGED <<aProvider, aCred, aFile, aAccounts>>

\* Google: fetchAccountQuota of the next account settles; it never throws.
\* r1 answers the token refresh, r2 the quota request
GoogleAccountQuery ==
  /\ UNCHANGED <<httpVars, aggVars, utilVars, queryVars>>
  /\ aPc = "try"
  /\ aProvider = "google"
  /\ Len(aAccounts) < NumAccounts(aFile)
  /\ \E r1 \in {x \in AdapterResponses("google") : x.body # "abort"},
        r2 \in AdapterResponses("google"),
        hasProject \in BOOLEAN, hasModels \in BOOLEAN :
       LET s1 == refreshAccessToken(r1)
           s2 == fetchGoogleUsage(r2)
       IN  IF s1.do = "throw"
           THEN /\ aNetCalls' = aNetCalls + 1
                /\ aHistory' = Append(aHistory, r1)
                /\ aAccounts' = Append(aAccounts,
                     [success |-> FALSE, models |-> FALSE,
                      error |-> handleProviderError(s1.error, "Google").error])
                /\ aFault' = s1.error
           ELSE IF ~hasProject
           THEN /\ aNetCalls' = aNetCalls + 1
                /\ aHistory' = Append(aHistory, r1)
                /\ aAccounts' = Append(aAccounts,
                     [success |-> FALSE, models |-> FALSE,
                      error |-> NoProjectIdMessage])
                /\ aFault' = NoProjectIdMessage
           ELSE IF s2.do = "throw"
           THEN /\ aNetCalls' = aNetCalls + 2
                /\ aHistory' = aHistory \o <<r1, r2>>
                /\ aAccounts' = Append(aAccounts,
                     [success |-> FALSE, models |-> FALSE,
                      error |-> handleProviderError(s2.error, "Google").error])
                /\ aFault' = s2.error
           ELSE /\ aNetCalls' = aNetCalls + 2
                /\ aHistory' = aHistory \o <<r1, r2>>
                /\ aAccounts' = Append(aAccounts,
                     [success |-> TRUE, models |-> hasModels, error |-> None])
                /\ UNCHANGED aFault
  /\ aPc' = IF Len(aAccounts) + 1 = NumAccounts(aFile) THEN "format" ELSE "try"
  /\ UNCHANGED <<aProvider, aCred, aFile, aOutcome>>

\* the rest of the try block: the data is turned into the report text, or
\* that step throws
Format ==
  /\ UNCHANGED <<httpVars, aggVars, utilVars, queryVars>>
  /\ aPc = "format"
  /\ aPc' = "done"
  /\ \/ /\ aOutcome' =
             IF aProvider = "google"
             THEN GoogleResult(aAccounts)
             ELSE Success(<<"report", aProvider>>)
        /\ UNCHANGED aFault
     \/ /\ aFault' = TypeErrorMessage
        /\ aOutcome' = AdapterCatch(aProvider, TypeErrorMessage)
  /\ UNCHANGED <<aProvider, aCred, aFile, aNetCalls, aHistory, aAccounts>>

AdapterNext ==
  \/ Query
  \/ NetworkCall
  \/ GoogleAccountQuery
  \/ Format

AdapterSpec == AdapterInit /\ [][AdapterNext]_vars

\* ------------------------------------------------------------------------
\* Properties of the provider adapters
\* ------------------------------------------------------------------------

\* String.prototype.includes
Includes(text, part) ==
  \E i \in 1..(Len(text) - Len(part) + 1) :
    SubSeq(text, i, i + Len(part) - 1) = part

\* a failure inside the Google adapter that fetchAccountQuota turned into a
\* per-account result
GoogleAccountFailure ==
  /\ aProvider = "google"
  /\ \E i \in 1..Len(aAccounts) : ~aAccounts[i].success
  /\ aFault # TypeErrorMessage

Configured(p, cred, file) ==
  CASE p = "openai" -> cred.present /\ cred.type = "oauth" /\ cred.access
    [] p \in ApiKeyProviders -> cred.present /\ cred.type = "api" /\ cred.key
    [] p \in KeyProviders -> cred.present /\ cred.key
    [] p = "chutes" -> cred.present /\ cred.token
    [] p = "copilot" ->
         \/ file = "pat"
         \/ cred.present /\ cred.type = "oauth" /\ cred.refresh
    [] p = "google" -> file \in {"one", "two"}

\* C10: for every adapter, if its credential is absent or lacks the fields
\* the provider requires, the adapter returns null, not a failure record,
\* and makes no network call.
C10_AbsentCredentialGivesNull ==
  (aPc = "done" /\ ~Configured(aProvider, aCred, aFile)) =>
    /\ aOutcome.kind = "null"
    /\ aNetCalls = 0

\* C11: every record an adapter returns has exactly one of output and error
\* populated: output and no error when success is true, error and no output
\* when success is false.
C11_ExactlyOnePopulated ==
  aOutcome.kind = "record" =>
    IF aOutcome.success
    THEN aOutcome.output # None /\ aOutcome.error = None
    ELSE aOutcome.error # None /\ aOutcome.output = None

C11_Witness ==
  /\ aPc = "done"
  /\ aProvider = "chutes"
  /\ aNetCalls = 2
  /\ aOutcome = Failure(Prefixed("Chutes", ApiErrorMessage(500)))

\* the failures the specification calls transient: network failure, timeout,
\* or a 5xx response
Transient(p, err) ==
  \/ err \in RaisedByFetchWithTimeout
  \/ err = ApiErrorMessage(500)
  \/ err \in RetriedByRequest(Label(p))

\* C20: for every adapter, a query that ends with a transient failure has
\* made the bounded number of attempts (1 + DEFAULT_RETRIES requests) before
\* the failure is reported.
C20_TransientFailureRetried ==
  (aPc = "done" /\ aFault # None /\ Transient(aProvider, aFault)) =>
    aNetCalls >= DEFAULT_RETRIES + 1

\* C21: for every adapter, a final response with a status that is not 2xx
\* is surfaced as a failure: the adapter's outcome is a record with
\* success = false and an error message.
C21_Non2xxIsFailure ==
  (aPc = "done" /\ aHistory # << >>
     /\ ~NoResponse(Last(aHistory)) /\ ~ResponseOk(Last(aHistory).status)) =>
    /\ aOutcome.kind = "record"
    /\ ~aOutcome.success
    /\ aOutcome.error # None

\* C22: when a vendor answers with its "invalid credential" status, that
\* response is the last of the query, and the adapter reports the fixed
\* authentication message.
C22_AuthStatusEndsQuery ==
  \A i \in 1..Len(aHistory) :
    (aProvider \in AuthMappingProviders
       /\ aHistory[i].status = AuthStatus(aProvider)) =>
      /\ i = Len(aHistory)
      /\ aPc = "done"
      /\ aOutcome = AdapterCatch(aProvider, AuthErrorMessage)

\* C23: the error of every failure record built with handleProviderError
\* starts with "[<provider>] " and carries that prefix once.
C23_ProviderPrefixOnce ==
  (aOutcome.kind = "record" /\ ~aOutcome.success
     /\ aProvider \in HandleProviderErrorUsers /\ aFault # None) =>
    /\ StartsWith(aOutcome.error, Prefixed(Label(aProvider), << >>))
    /\ ~StartsWith(AfterPrefix(aOutcome.error), Bracketed(Label(aProvider)))

\* the primary request of MiniMax did not give the rate limits
PrimaryFailed(r) ==
  \/ NoResponse(r)
  \/ ~ResponseOk(r.status)
  \/ r.body = "mismatch"

\* C24: MiniMax requests the fallback URL only after the primary request
\* has failed, after every kind of primary failure, at most once, and makes
\* at most two requests per query.
C24_FallbackAfterAnyPrimaryFailure ==
  aProvider = "minimax" =>
    /\ Len(aHistory) <= 2
    /\ aNetCalls = Len(aHistory)
    /\ Len(aHistory) = 2 => PrimaryFailed(aHistory[1])
    /\ (aPc \in {"format", "done"} /\ aHistory # << >>
          /\ PrimaryFailed(aHistory[1])) => Len(aHistory) = 2

C24_Witness ==
  /\ aProvider = "minimax"
  /\ aPc = "done"
  /\ Len(aHistory) = 2
  /\ aHistory[1].status = 401
  /\ aHistory[2].status = 200
  /\ aOutcome.kind = "record"
  /\ aOutcome.success

\* ------------------------------------------------------------------------
\* The tool: execute() and collectResult() of mystatus.ts
\* ------------------------------------------------------------------------

\* the records found under a provider's key of auth.json: none, an API-key
\* record, an OAuth record, an OAuth record whose `expires` has passed
AuthRecords ==
  {Undefined,
   Cred(TRUE, "api", TRUE, FALSE, FALSE, FALSE, FALSE),
   Cred(TRUE, "oauth", FALSE, TRUE, TRUE, FALSE, FALSE),
   Cred(TRUE, "oauth", FALSE, TRUE, TRUE, FALSE, TRUE)}

\* what reading and parsing auth.json gives: readFile rejects, JSON.parse
\* throws, the text is `null`, another non-object value, or an object
AuthStates == {"missing", "unparsable", "null", "scalar", "object"}

\* the states of the Antigravity accounts file an invocation starts with:
\* missing, not JSON, without accounts, with one account
AccountFileStates == {"missing", "unparsable", "noaccounts", "one"}

AuthPath == "auth.json"

\* t.authError(path, err)
AuthErrorText(path, err) ==
  <<"Cannot read auth file: ", path, "\n", "Error: ">> \o err

\* t.noAccounts
NoAccounts == <<"No configured accounts found">>

\* t.queryFailed
QueryFailed == <<"Failed to query accounts:", "\n">>

\* t.openaiTitle, t.zhipuTitle, t.zaiTitle, t.googleTitle
Title(p) == <<"## ", p, " Account Quota">>

\* the argument execute() passes to adapter p: authData[key], which is
\* undefined when authData is not an object; queryGoogleUsage takes none
Argument(p) ==
  IF p # "google" /\ agAuth = "object" THEN agCreds[p] ELSE Undefined

\* the file adapter p reads itself
OwnFile(p) == IF p = "google" THEN agFile ELSE "none"

\* what fetchAccountQuota resolves with
AccountResults ==
  {[success |-> TRUE, models |-> m, error |-> None] : m \in BOOLEAN}
    \cup {[success |-> FALSE, models |-> FALSE, error |-> NoProjectIdMessage]}
    \cup {[success |-> FALSE, models |-> FALSE,
           error |-> handleProviderError(err, "Google").error] :
            err \in FetchErrors("google")}

\* variant: a null result is recorded as an error
collectResult_NullIsError(queryResult, title, results, errors) ==
  IF queryResult.kind = "null"
  THEN [results |-> results, errors |-> Append(errors, <<"null">>)]
  ELSE IF queryResult.success /\ queryResult.output # None
  THEN [results |->
          (IF Len(results) > 0 THEN Append(results, None) ELSE results)
            \o <<title, None, queryResult.output>>,
        errors |-> errors]
  ELSE IF queryResult.error # None
  THEN [results |-> results, errors |-> Append(errors, queryResult.error)]
  ELSE [results |-> results, errors |-> errors]

\* collectResult: the arrays `results` and `errors` after the call
collectResult(queryResult, title, results, errors) ==
  IF queryResult.kind = "null"
  THEN [results |-> results, errors |-> errors]
  ELSE IF queryResult.success /\ queryResult.output # None
  THEN [results |->
          (IF Len(results) > 0 THEN Append(results, None) ELSE results)
            \o <<title, None, queryResult.output>>,
        errors |-> errors]
  ELSE IF queryResult.error # None
  THEN [results |-> results, errors |-> Append(errors, queryResult.error)]
  ELSE [results |-> results, errors |-> errors]

\* variant: the results are collected in the order the queries settled
CollectOrder_Completion == agOrder

\* the order of the four collectResult calls of execute()
CollectOrder == AggProviders

\* the collectResult calls of execute(), one per adapter of `order`
RECURSIVE CollectAll(_, _, _)
CollectAll(order, outcomes, acc) ==
  IF Len(order) = 0 THEN acc
  ELSE CollectAll(Tail(order), outcomes,
                  collectResult(outcomes[Head(order)], Title(Head(order)),
                                acc.results, acc.errors))

\* variant: when a query failed only the failed section is returned
Report_FailedOnly(results, errors) ==
  IF Len(results) = 0 /\ Len(errors) = 0
  THEN NoAccounts
  ELSE IF Len(errors) > 0
       THEN QueryFailed \o Join(errors, <<"\n">>)
       ELSE Join(results, <<"\n">>)

\* variant: every error gets its own "failed to query" heading
Report_HeadingPerError(results, errors) ==
  IF Len(results) = 0 /\ Len(errors) = 0
  THEN NoAccounts
  ELSE LET output == Join(results, <<"\n">>)
       IN  IF Len(errors) > 0
           THEN (IF Len(output) > 0 THEN output \o <<"\n\n">> ELSE output)
                  \o Join([i \in 1..Len(errors) |-> QueryFailed \o errors[i]],
                          <<"\n">>)
           ELSE output

\* step 4 of execute(): the text built from `results` and `errors`
Report(results, errors) ==
  IF Len(results) = 0 /\ Len(errors) = 0
  THEN NoAccounts
  ELSE LET output == Join(results, <<"\n">>)
       IN  IF Len(errors) > 0
           THEN (IF Len(output) > 0 THEN output \o <<"\n\n">> ELSE output)
                  \o QueryFailed \o Join(errors, <<"\n">>)
           ELSE output

AggInit ==
  /\ pc = "idle"
  /\ context = "Abacus"
  /\ retries = DEFAULT_RETRIES
  /\ attempt = 0
  /\ lastError = None
  /\ lastStatus = NoStatus
  /\ respStatus = NoStatus
  /\ timerArmed = FALSE
  /\ elapsed = 0
  /\ calls = 0
  /\ waits = << >>
  /\ history = << >>
  /\ result = None
  /\ thrown = None
  /\ AdapterIdle
  /\ UtilIdle
  /\ QueriesIdle
  /\ agAuth \in AuthStates
  /\ agCreds \in [{"openai", "zhipu", "zai"} -> AuthRecords]
  /\ agAuth # "object" => \A p \in {"openai", "zhipu", "zai"} : agCreds[p] = Undefined
  /\ agFile \in AccountFileStates
  /\ agPc = "idle"
  /\ agLaunched = << >>
  /\ agOutcome = [p \in {"openai", "zhipu", "zai", "google"} |-> Pending]
  /\ agOrder = << >>
  /\ agResults = << >>
  /\ agErrors = << >>
  /\ agText = None
  /\ agRaised = None

\* execute() is called: step 1, auth.json is read and parsed
Execute ==
  /\ UNCHANGED <<httpVars, adapterVars, utilVars, queryVars>>
  /\ agPc = "idle"
  /\ IF agAuth \in {"missing", "unparsable"}
     THEN /\ agPc' = "returned"
          /\ agText' = AuthErrorText(AuthPath,
                         IF agAuth = "missing" THEN FileNotFound
                         ELSE JsonSyntaxError)
     ELSE /\ agPc' = "launch"
          /\ UNCHANGED agText
  /\ UNCHANGED <<agAuth, agCreds, agFile, agLaunched, agOutcome, agOrder,
                 agResults, agErrors, agRaised>>

\* step 2: the next element of the array passed to Promise.all is
\* evaluated: the argument expression, then the call of the adapter, which
\* returns its promise; after the last one execute() suspends in the await
Launch ==
  /\ UNCHANGED <<httpVars, adapterVars, utilVars, queryVars>>
  /\ agPc = "launch"
  /\ LET p == AggProviders[Len(agLaunched) + 1] IN
       IF p # "google" /\ agAuth = "null"
       THEN /\ agPc' = "raised"
            /\ agRaised' = TypeErrorMessage
            /\ UNCHANGED agLaunched
       ELSE /\ agLaunched' = Append(agLaunched, p)
            /\ agPc' = IF Len(agLaunched) + 1 = Len(AggProviders)
                       THEN "await" ELSE "launch"
            /\ UNCHANGED agRaised
  /\ UNCHANGED <<agAuth, agCreds, agFile, agOutcome, agOrder, agResults,
                 agErrors, agText>>

\* the promise of adapter p settles with the record o
Deliver(p, o) ==
  /\ agOutcome' = [agOutcome EXCEPT ![p] = o]
  /\ agOrder' = Append(agOrder, p)

\* the promise of one of the adapters settles while execute() is suspended
Settle ==
  /\ UNCHANGED <<httpVars, adapterVars, utilVars, queryVars>>
  /\ agPc = "await"
  /\ \E i \in 1..Len(agLaunched) :
       LET p == agLaunched[i]
           g == Guard(p, Argument(p), OwnFile(p))
       IN  /\ agOutcome[p].kind = "pending"
           /\ \/ /\ g.do = "return"
                 /\ Deliver(p, g.value)
              \/ /\ g.do = "throw"
                 /\ Deliver(p, AdapterCatch(p, g.value.error))
              \/ /\ g.do = "go"
                 /\ p # "google"
                 /\ \/ Deliver(p, Success(<<"report", p>>))
                    \/ \E err \in FetchErrors(p) \cup {TypeErrorMessage} :
                         Deliver(p, AdapterCatch(p, err))
              \/ /\ g.do = "go"
                 /\ p = "google"
                 /\ \/ \E accounts \in [1..NumAccounts(agFile) -> AccountResults] :
                         Deliver(p, GoogleResult(accounts))
                    \/ Deliver(p, AdapterCatch(p, TypeErrorMessage))
  /\ UNCHANGED <<agAuth, agCreds, agFile, agPc, agLaunched, agResults,
                 agErrors, agText, agRaised>>

\* variant: the await resumes as soon as one promise has settled
AllSettled_Any ==
  \E i \in 1..Len(AggProviders) : agOutcome[AggProviders[i]].kind # "pending"

\* Promise.all resolves: every promise of the array has settled
AllSettled ==
  \A i \in 1..Len(AggProviders) : agOutcome[AggProviders[i]].kind # "pending"

\* steps 3 and 4: Promise.all has resolved; the results are collected and
\* the text is returned
Collect ==
  /\ UNCHANGED <<httpVars, adapterVars, utilVars, queryVars>>
  /\ agPc = "await"
  /\ AllSettled
  /\ LET c == CollectAll(CollectOrder, agOutcome,
                         [results |-> << >>, errors |-> << >>])
     IN  /\ agResults' = c.results
         /\ agErrors' = c.errors
         /\ agText' = Report(c.results, c.errors)
  /\ agPc' = "returned"
  /\ UNCHANGED <<agAuth, agCreds, agFile, agLaunched, agOutcome, agOrder,
                 agRaised>>

AggNext ==
  \/ Execute
  \/ Launch
  \/ Settle
  \/ Collect

AggSpec == AggInit /\ [][AggNext]_vars

\* ------------------------------------------------------------------------
\* Properties of the tool
\* ------------------------------------------------------------------------

\* what one call of one of the four adapters settles with is what Settle
\* delivers for that adapter, credential and file
AdapterOutcomeDelivered ==
  (aPc = "done" /\ aProvider \in {"openai", "zhipu", "zai", "google"}) =>
    LET g == Guard(aProvider, aCred, aFile) IN
      CASE g.do = "return" -> aOutcome = g.value
        [] g.do = "throw" -> aOutcome = AdapterCatch(aProvider, g.value.error)
        [] g.do = "go" ->
             IF aProvider = "google"
             THEN \/ \E accounts \in [1..NumAccounts(aFile) -> AccountResults] :
                       aOutcome = GoogleResult(accounts)
                  \/ aOutcome = AdapterCatch(aProvider, TypeErrorMessage)
             ELSE \/ aOutcome = Success(<<"report", aProvider>>)
                  \/ \E err \in FetchErrors(aProvider) \cup {TypeErrorMessage} :
                       aOutcome = AdapterCatch(aProvider, err)

Absent(p) == agOutcome[p].kind = "null"

Succeeded(p) == agOutcome[p].kind = "record" /\ agOutcome[p].success

FailedQuery(p) == agOutcome[p].kind = "record" /\ ~agOutcome[p].success

\* execute() has returned the text it builds from the adapters' results
Reported == agPc = "returned" /\ Len(agLaunched) > 0

\* the titled block of a provider as it stands in the joined text
Block(p) == Title(p) \o <<"\n", "\n">> \o agOutcome[p].output

NumFailed ==
  Cardinality({i \in 1..Len(AggProviders) : FailedQuery(AggProviders[i])})

NumSucceeded ==
  Cardinality({i \in 1..Len(AggProviders) : Succeeded(AggProviders[i])})

\* number of places where `part` stands in `text`
Count(part, text) ==
  Cardinality({i \in 1..(Len(text) - Len(part) + 1) :
                 SubSeq(text, i, i + Len(part) - 1) = part})

\* the first place where `part` stands in `text`, 0 if there is none
Pos(part, text) ==
  IF Includes(text, part)
  THEN CHOOSE i \in 1..(Len(text) - Len(part) + 1) :
         /\ SubSeq(text, i, i + Len(part) - 1) = part
         /\ \A j \in 1..(i - 1) : SubSeq(text, j, j + Len(part) - 1) # part
  ELSE 0

\* the error messages of the failed providers of `order`, in that order
RECURSIVE FailedErrors(_)
FailedErrors(order) ==
  IF Len(order) = 0 THEN << >>
  ELSE (IF FailedQuery(Head(order))
        THEN <<agOutcome[Head(order)].error>> ELSE << >>)
         \o FailedErrors(Tail(order))

\* C12: whatever the other providers returned, every provider whose query
\* succeeded has its titled block (title, blank line, output) in the text
\* execute() returns.
C12_SucceededAlwaysReported ==
  Reported =>
    \A i \in 1..Len(AggProviders) :
      Succeeded(AggProviders[i]) => Includes(agText, Block(AggProviders[i]))

C12_Witness ==
  /\ Reported
  /\ FailedQuery("openai")
  /\ Succeeded("zhipu")
  /\ FailedQuery("zai")
  /\ Succeeded("google")
  /\ Includes(agText, Block("zhipu"))

\* C13: no adapter's promise is awaited before all four adapters have been
\* called, and the text is built only after all four promises have settled:
\* none is skipped or dropped because another failed or finished first.
C13_FanOutFanIn ==
  /\ Len(agOrder) > 0 => agLaunched = AggProviders
  /\ Reported =>
       /\ agLaunched = AggProviders
       /\ Len(agOrder) = Len(AggProviders)
       /\ \A i \in 1..Len(AggProviders) :
            agOutcome[AggProviders[i]].kind # "pending"

C13_Witness ==
  /\ Reported
  /\ agOrder = <<"google", "openai", "zhipu", "zai">>
  /\ FailedQuery("google")
  /\ Succeeded("openai")
  /\ Succeeded("zhipu")
  /\ Succeeded("zai")

\* C14: in the returned text the blocks stand in the order in which the
\* adapters are called, and the error entries are those of the failed
\* providers in that same order, whatever the order in which the queries
\* settled.
C14_CallOrder ==
  (Reported /\ Len(agOrder) = Len(AggProviders)) =>
    /\ \A i \in 1..Len(AggProviders) : \A j \in (i + 1)..Len(AggProviders) :
         (Succeeded(AggProviders[i]) /\ Succeeded(AggProviders[j])) =>
           /\ Pos(Title(AggProviders[i]), agText) > 0
           /\ Pos(Title(AggProviders[i]), agText)
                < Pos(Title(AggProviders[j]), agText)
    /\ agErrors = FailedErrors(AggProviders)
    /\ NumFailed > 0 =>
         Includes(agText, QueryFailed \o Join(FailedErrors(AggProviders), <<"\n">>))

C14_Witness ==
  /\ Reported
  /\ agOrder = <<"google", "zai", "zhipu", "openai">>
  /\ Succeeded("openai")
  /\ FailedQuery("zhipu")
  /\ FailedQuery("zai")
  /\ agOutcome["zhipu"].error # agOutcome["zai"].error
  /\ Succeeded("google")

\* C15: after the results are collected, an absent (null) outcome has
\* neither a block in `results` nor an entry in `errors`, and every other
\* outcome has exactly one of the two: a success its block, a failure its
\* error entry.
C15_CollectedExactlyOnce ==
  (Reported /\ Len(agOrder) = Len(AggProviders)) =>
    /\ \A i \in 1..Len(AggProviders) :
         LET p == AggProviders[i]
             inResults == \E k \in 1..Len(agResults) : agResults[k] = Title(p)
         IN  /\ Absent(p) => ~inResults
             /\ Succeeded(p) =>
                  /\ inResults
                  /\ \E k \in 1..Len(agResults) : agResults[k] = agOutcome[p].output
             /\ FailedQuery(p) =>
                  /\ ~inResults
                  /\ \E k \in 1..Len(agErrors) : agErrors[k] = agOutcome[p].error
    /\ Len(agErrors) = NumFailed
    /\ Len(agResults) = IF NumSucceeded = 0 THEN 0 ELSE 4 * NumSucceeded - 1

C15_Witness ==
  /\ Reported
  /\ Absent("openai")
  /\ Succeeded("zhipu")
  /\ FailedQuery("zai")
  /\ FailedQuery("google")
  /\ Len(agErrors) = 2
  /\ Len(agResults) = 3

\* the adapter of p has what it requires to query the provider
ConfiguredFor(p) == Configured(p, Argument(p), OwnFile(p))

\* C16: when none of the providers is configured, execute() returns exactly
\* the "no accounts configured" message.
C16_NoAccountsWhenNothingConfigured ==
  (agPc = "returned"
     /\ \A i \in 1..Len(AggProviders) : ~ConfiguredFor(AggProviders[i])) =>
    agText = NoAccounts

\* C17: execute() never rejects: for every state of auth.json and every
\* behaviour of the adapters it resolves with a text.
C17_NeverRaises ==
  /\ agPc # "raised"
  /\ agPc = "returned" => agText # None

\* the record of p is absent: auth.json is missing or unparsable, or has
\* nothing under the key of p
RecordAbsent(p) ==
  \/ agAuth \in {"missing", "unparsable"}
  \/ ~Argument(p).present

\* C18: when the record of a provider is absent (auth.json missing or
\* unparsable, or no record under the key), the invocation raises nothing,
\* calls the remaining adapters, and reports no error for the provider.
C18_AbsentRecordSkipped ==
  \A p \in {"openai", "zhipu", "zai"} :
    (agPc \in {"returned", "raised"} /\ RecordAbsent(p)) =>
      /\ agPc = "returned"
      /\ agLaunched = AggProviders
      /\ Absent(p)
      /\ ~Includes(agText, <<"Cannot read auth file: ">>)

\* C19: when at least one provider gave a result, the returned text is the
\* blocks of the succeeded providers followed by at most one "failed to
\* query" section; the section is there exactly when a provider failed and
\* holds one entry per failed provider.
C19_BlocksThenOneFailedSection ==
  (Reported /\ Len(agOrder) = Len(AggProviders)
     /\ NumFailed + NumSucceeded > 0) =>
    LET output == Join(agResults, <<"\n">>) IN
      /\ \A i \in 1..Len(AggProviders) :
           Succeeded(AggProviders[i]) => Includes(output, Block(AggProviders[i]))
      /\ Count(QueryFailed, agText) = IF NumFailed > 0 THEN 1 ELSE 0
      /\ NumFailed = 0 => agText = output
      /\ NumFailed > 0 =>
           /\ Len(agErrors) = NumFailed
           /\ agText = (IF NumSucceeded > 0 THEN output \o <<"\n\n">> ELSE << >>)
                         \o QueryFailed \o Join(agErrors, <<"\n">>)

C19_Witness ==
  /\ Reported
  /\ Succeeded("openai")
  /\ FailedQuery("zhipu")
  /\ FailedQuery("zai")
  /\ FailedQuery("google")
  /\ Count(QueryFailed, agText) = 1
  /\ Len(agErrors) = 3

\* ------------------------------------------------------------------------
\* Helpers of lib/utils.ts: createProgressBar and maskString
\* ------------------------------------------------------------------------

\* widest bar that is drawn
MaxWidth == 10

\* longest string that is masked, beside the prefixes of Example
MaxLen == 9

\* stands for the full-block glyph the bar is filled with
filledChar == "#"

\* stands for the light-shade glyph of the rest of the bar
emptyChar == "-"

\* the percentages passed in: the callers round them, so they are integers,
\* or NaN when the vendor's body lacks the field
PercentInputs == {Num(v) : v \in (0 - 5)..105} \cup {Num(150), NaN}

Example == <<"a", "b", "c", "d", "1", "2", "3", "4", "e", "f", "g", "h">>

Alphabet == {"k", "y"}

\* the strings passed in
Texts ==
  UNION {[1..n -> Alphabet] : n \in 0..MaxLen}
    \cup {SubSeq(Example, 1, n) : n \in 1..Len(Example)}

\* Math.min and Math.max of two numbers
MathMin(a, b) ==
  IF a.nan \/ b.nan THEN NaN ELSE IF a.val <= b.val THEN a ELSE b

MathMax(a, b) ==
  IF a.nan \/ b.nan THEN NaN ELSE IF a.val >= b.val THEN a ELSE b

\* Math.round((percent / 100) * width) for a percentage in 0..100: halves
\* round up
RoundOfScaled(percent, width) ==
  IF percent.nan THEN NaN
  ELSE Num((2 * percent.val * width + 100) \div 200)

\* a - b
Minus(a, b) == IF a.nan \/ b.nan THEN NaN ELSE Num(a.val - b.val)

\* String.prototype.repeat: a count of NaN is taken as 0
Repeat(ch, count) ==
  IF count.nan THEN << >> ELSE [i \in 1..count.val |-> ch]

createProgressBar(remainPercent, width) ==
  LET safePercent == MathMax(Num(0), MathMin(Num(100), remainPercent))
      filled == RoundOfScaled(safePercent, width)
      empty == Minus(Num(width), filled)
  IN  Repeat(filledChar, filled) \o Repeat(emptyChar, empty)

\* String.prototype.slice(0, n) and slice(-n)
SliceHead(str, n) == SubSeq(str, 1, IF n < Len(str) THEN n ELSE Len(str))

SliceTail(str, n) ==
  SubSeq(str, (IF Len(str) - n > 0 THEN Len(str) - n ELSE 0) + 1, Len(str))

showChars == 4

\* variant: a string of exactly 2 * showChars characters is masked too
maskString_Strict(str) ==
  IF Len(str) < showChars * 2
  THEN str
  ELSE SliceHead(str, showChars) \o <<"*", "*", "*", "*">>
         \o SliceTail(str, showChars)

maskString(str) ==
  IF Len(str) <= showChars * 2
  THEN str
  ELSE SliceHead(str, showChars) \o <<"*", "*", "*", "*">>
         \o SliceTail(str, showChars)

UtilInit ==
  /\ HttpIdle
  /\ AdapterIdle
  /\ AggIdle
  /\ QueriesIdle
  /\ uBar = << >>
  /\ uMasked = << >>
  /\ \/ /\ uPc = "bar"
        /\ uPercent \in PercentInputs
        /\ uWidth \in 0..MaxWidth
        /\ uStr = << >>
     \/ /\ uPc = "mask"
        /\ uPercent = Num(0)
        /\ uWidth = 0
        /\ uStr \in Texts

\* createProgressBar(uPercent, uWidth) returns
CreateProgressBar ==
  /\ UNCHANGED <<httpVars, adapterVars, aggVars, queryVars>>
  /\ uPc = "bar"
  /\ uBar' = createProgressBar(uPercent, uWidth)
  /\ uPc' = "barDone"
  /\ UNCHANGED <<uPercent, uWidth, uStr, uMasked>>

\* maskString(uStr) returns
MaskString ==
  /\ UNCHANGED <<httpVars, adapterVars, aggVars, queryVars>>
  /\ uPc = "mask"
  /\ uMasked' = maskString(uStr)
  /\ uPc' = "maskDone"
  /\ UNCHANGED <<uPercent, uWidth, uBar, uStr>>

UtilNext ==
  \/ CreateProgressBar
  \/ MaskString

UtilSpec == UtilInit /\ [][UtilNext]_vars

\* clamp(p, 0, 100) of the specification, for a percentage that is a number
Clamp(v) == IF v < 0 THEN 0 ELSE IF v > 100 THEN 100 ELSE v

\* round(x / 100 * w), halves rounding up
RoundedShare(x, w) == (2 * x * w + 100) \div 200

\* the bar of width w with the first k glyphs filled
BarOf(k, w) == [i \in 1..w |-> IF i <= k THEN filledChar ELSE emptyChar]

\* C26: createProgressBar(p, w) always returns exactly w glyphs, the first
\* round(clamp(p, 0, 100) / 100 * w) of them filled and the rest empty.
C26_BarHasWidthGlyphs ==
  uPc = "barDone" =>
    /\ Len(uBar) = uWidth
    /\ ~uPercent.nan =>
         uBar = BarOf(RoundedShare(Clamp(uPercent.val), uWidth), uWidth)

\* for every percentage that is a number the bar has w glyphs, the first
\* round(clamp(p, 0, 100) / 100 * w) of them filled
BarOfNumbers ==
  (uPc = "barDone" /\ ~uPercent.nan) =>
    /\ Len(uBar) = uWidth
    /\ uBar = BarOf(RoundedShare(Clamp(uPercent.val), uWidth), uWidth)
    /\ uPercent.val <= 0 => uBar = BarOf(0, uWidth)
    /\ uPercent.val >= 100 => uBar = BarOf(uWidth, uWidth)
    /\ (uPercent.val = 50 /\ uWidth = 10) => uBar = BarOf(5, 10)

\* C27: maskString(s) returns s unchanged when s has 8 or fewer characters,
\* and otherwise the first 4 characters of s, then "****", then the last 4
\* characters of s.
C27_MaskKeepsEnds ==
  uPc = "maskDone" =>
    /\ Len(uStr) <= 8 => uMasked = uStr
    /\ Len(uStr) > 8 =>
         /\ Len(uMasked) = 12
         /\ \A i \in 1..4 : uMasked[i] = uStr[i]
         /\ \A i \in 5..8 : uMasked[i] = "*"
         /\ \A i \in 1..4 : uMasked[8 + i] = uStr[Len(uStr) - 4 + i]
    /\ uStr = Example =>
         uMasked = <<"a", "b", "c", "d", "*", "*", "*", "*", "e", "f", "g", "h">>

C27_Witness ==
  /\ uPc = "maskDone"
  /\ uStr = Example
  /\ uMasked = <<"a", "b", "c", "d", "*", "*", "*", "*", "e", "f", "g", "h">>

\* ------------------------------------------------------------------------
\* Provider queries that run concurrently
\* ------------------------------------------------------------------------

USER_AGENT == "OpenCode-Status-Plugin/1.0"

\* the headers an adapter passes: config.authHeader(key), with or without a
\* User-Agent of its own
CallerHeaders ==
  {("Authorization" :> "Bearer key"),
   ("Authorization" :> "Bearer key") @@ ("User-Agent" :> "caller")}

ApiKeyRecord == Cred(TRUE, "api", TRUE, FALSE, FALSE, FALSE, FALSE)

\* what the requests of the concurrent queries are answered with
QueryResponses ==
  {Outcome(NoStatus, "network"), Outcome(200, "quotaA"),
   Outcome(404, "text"), Outcome(503, "text")}

\* finalHeaders: a copy of the caller's headers with the User-Agent set
finalHeaders(headers) ==
  [h \in DOMAIN headers \cup {"User-Agent"} |->
     IF h = "User-Agent" THEN USER_AGENT ELSE headers[h]]

\* the headers that go out for adapter p: request() sends finalHeaders,
\* fetchWithTimeout the headers it is given
SentHeaders(p, headers) ==
  IF p \in RequestFactoryProviders THEN finalHeaders(headers) ELSE headers

\* what a query of adapter p does when its n-th request is answered with r
\* and the executor's lastStatus is `status` in the catch block
QueryStep(p, cred, n, r, status) ==
  IF p \in RequestFactoryProviders
  THEN requestAttempt(Label(p), n, r, status)
  ELSE Step(p, cred, "none", n, r)

\* the value lastStatus has once the request is answered with r
StatusAfter(r, before) == IF NoResponse(r) THEN before ELSE r.status

QueryInit ==
  /\ HttpIdle
  /\ AdapterIdle
  /\ AggIdle
  /\ UtilIdle
  /\ qCred \in [QueryProviders -> {Undefined, ApiKeyRecord}]
  /\ \E hs \in [QueryProviders -> CallerHeaders] :
       qOptions = [p \in QueryProviders |-> [url |-> p, headers |-> hs[p]]]
  /\ qSent = [p \in QueryProviders |-> << >>]
  /\ qPc = [p \in QueryProviders |-> "idle"]
  /\ qLastStatus = [p \in QueryProviders |-> NoStatus]
  /\ qHistory = [p \in QueryProviders |-> << >>]
  /\ qOutcome = [p \in QueryProviders |-> Pending]

\* Promise.all([...]): the adapters are called one after the other, each runs
\* its guard and, with a credential, up to its first `await fetch(...)`
QueryAll ==
  /\ UNCHANGED <<httpVars, adapterVars, aggVars, utilVars>>
  /\ \A p \in QueryProviders : qPc[p] = "idle"
  /\ qPc' = [p \in QueryProviders |->
               IF Guard(p, qCred[p], "none").do = "go" THEN "try" ELSE "done"]
  /\ qOutcome' = [p \in QueryProviders |-> Guard(p, qCred[p], "none").value]
  /\ qSent' = [p \in QueryProviders |->
                 IF Guard(p, qCred[p], "none").do = "go"
                 THEN SentHeaders(p, qOptions[p].headers)
                 ELSE << >>]
  /\ UNCHANGED <<qCred, qOptions, qLastStatus, qHistory>>

\* variant: lastStatus is one variable of the module, shared by all calls
QueryAnswered_SharedStatus(p) ==
  /\ UNCHANGED <<httpVars, adapterVars, aggVars, utilVars>>
  /\ qPc[p] = "try"
  /\ \E r \in QueryResponses :
       LET status == StatusAfter(r, qLastStatus[p])
           s == QueryStep(p, qCred[p], Len(qHistory[p]) + 1, r, status)
       IN  /\ qHistory' = [qHistory EXCEPT ![p] = Append(@, r)]
           /\ qLastStatus' = [q \in QueryProviders |-> status]
           /\ CASE s.do = "next" -> UNCHANGED <<qPc, qOutcome>>
                [] s.do = "format" ->
                     /\ qPc' = [qPc EXCEPT ![p] = "done"]
                     /\ qOutcome' = [qOutcome EXCEPT ![p] = Success(<<"report", p>>)]
                [] s.do = "throw" ->
                     /\ qPc' = [qPc EXCEPT ![p] = "done"]
                     /\ qOutcome' = [qOutcome EXCEPT ![p] = AdapterCatch(p, s.error)]
  /\ UNCHANGED <<qCred, qOptions, qSent>>

\* a request of the query of adapter p is answered, whatever the other
\* queries are doing
QueryAnswered(p) ==
  /\ UNCHANGED <<httpVars, adapterVars, aggVars, utilVars>>
  /\ qPc[p] = "try"
  /\ \E r \in QueryResponses :
       LET status == StatusAfter(r, qLastStatus[p])
           s == QueryStep(p, qCred[p], Len(qHistory[p]) + 1, r, status)
       IN  /\ qHistory' = [qHistory EXCEPT ![p] = Append(@, r)]
           /\ qLastStatus' = [qLastStatus EXCEPT ![p] = status]
           /\ CASE s.do = "next" -> UNCHANGED <<qPc, qOutcome>>
                [] s.do = "format" ->
                     /\ qPc' = [qPc EXCEPT ![p] = "done"]
                     /\ qOutcome' = [qOutcome EXCEPT ![p] = Success(<<"report", p>>)]
                [] s.do = "throw" ->
                     /\ qPc' = [qPc EXCEPT ![p] = "done"]
                     /\ qOutcome' = [qOutcome EXCEPT ![p] = AdapterCatch(p, s.error)]
  /\ UNCHANGED <<qCred, qOptions, qSent>>

QueryNext ==
  \/ QueryAll
  \/ \E p \in QueryProviders : QueryAnswered(p)

QuerySpec == QueryInit /\ [][QueryNext]_vars

\* what a query of adapter p that runs alone settles with, given its
\* credential and the answers to its own requests from the i-th on
RECURSIVE SoloFrom(_, _, _, _, _)
SoloFrom(p, cred, answers, i, status) ==
  IF i > Len(answers) THEN Pending
  ELSE LET after == StatusAfter(answers[i], status)
           s == QueryStep(p, cred, i, answers[i], after)
       IN  CASE s.do = "next" -> SoloFrom(p, cred, answers, i + 1, after)
             [] s.do = "format" -> Success(<<"report", p>>)
             [] s.do = "throw" -> AdapterCatch(p, s.error)

Solo(p, cred, answers) ==
  IF Guard(p, cred, "none").do = "go"
  THEN SoloFrom(p, cred, answers, 1, NoStatus)
  ELSE Guard(p, cred, "none").value

\* C25: concurrent queries share no mutable state and the executor mutates
\* none: at every step, under every interleaving, each query's outcome is
\* the one a query running alone has for its own credential and the answers
\* to its own requests, and the caller's credential and request descriptor
\* are left as they were.
C25_NoSharedState ==
  [][/\ qOptions' = qOptions
     /\ qCred' = qCred
     /\ \A p \in QueryProviders :
          qOutcome'[p] = Solo(p, qCred'[p], qHistory'[p])]_vars

C25_Witness ==
  /\ \A p \in QueryProviders : qPc[p] = "done"
  /\ Len(qHistory["abacus-factory"]) = 2
  /\ qHistory["abacus-factory"][1].status = 503
  /\ qHistory["abacus-factory"][2].status = 404
  /\ Len(qHistory["nanogpt-factory"]) = 2
  /\ qHistory["nanogpt-factory"][2].status = 200
  /\ qOutcome["nanogpt-factory"].success
  /\ ~qOutcome["zhipu"].success
  /\ qOptions["abacus-factory"].headers = ("Authorization" :> "Bearer key")
  /\ qSent["abacus-factory"]["User-Agent"] = USER_AGENT

====
